---- MODULE Spec2Model ----
(***************************************************************************)
(* A model of the painting application: the three layer stores of          *)
(* layer_store.py, the Grid of grid.py, the UndoTracker of undo.py and the  *)
(* ReplayTracker of replay.py.                                             *)
(*                                                                         *)
(* The containers of data_structures/ (ArrayStack, CircularQueue,          *)
(* ArraySortedList) and the PaintAction of action.py are not among the     *)
(* source files; they are modelled by their contract and kept apart in     *)
(* operators of their own, named after the class and the method.           *)
(***************************************************************************)
EXTENDS Integers, Sequences, FiniteSets, TLC

VARIABLES
    draw_style,     \* Grid.draw_style: "SET", "ADD" or "SEQUENCE"
    grid,           \* Grid.grid: cell <<x, y>> |-> the layer store of that square
    action_stack,   \* UndoTracker.action_stack, bottom first
    redo_stack,     \* UndoTracker.redo_stack, bottom first
    raised,         \* "none", or the exception that ended the program
    last,           \* the last call and what it returned
    next_id,        \* identity of the next PaintAction object that is created
    applied,        \* per entry of action_stack: the grid before and after the
                    \* entry was last applied forward (history variable)
    run,            \* progress of a run "k paints, k undos, k redos" on a fresh
                    \* tracker (history variable)
    replay_queue,   \* ReplayTracker.replay_queue, front first
    bool_tracker,   \* ReplayTracker.bool_tracker, front first
    recorded,       \* the pairs (action, is_undo) add_action of the replay has
                    \* kept, in the order of the calls (history variable)
    played,         \* the number of calls of play_next_action that returned
                    \* False (history variable)
    returned,       \* what the last call on the replay or on a layer store
                    \* returned: a bool, or a colour
    given,          \* the pair (action, is_undo) last handed to add_action of
                    \* the replay (history variable)
    cell_call,      \* the last call on a layer store: the square, the layer
                    \* passed and the store before the call (history variable)
    brush_size      \* Grid.brush_size

vars == <<draw_style, grid, action_stack, redo_stack, raised, last, next_id,
          applied, run, replay_queue, bool_tracker, recorded, played, returned,
          given, cell_call, brush_size>>

\* The state of the UndoTracker, and the state of the ReplayTracker.
undo_vars == <<action_stack, redo_stack, applied, run>>

replay_vars == <<replay_queue, bool_tracker, recorded, played, returned, given>>

-----------------------------------------------------------------------------
(* Bounds of the model.                                                     *)

\* Capacity of each UndoTracker stack; stands for max_actions = 10000.
max_actions == 2

\* Number of PaintAction objects the editing layer creates in one behaviour.
MaxGestures == 3

\* Layers per catalog entry an AdditiveLayerStore can hold; stands for 100.
PerLayer == 1

-----------------------------------------------------------------------------
(* The layer catalog and the grid's squares.                                *)

\* The registered layers: unique index, name.
Catalog ==
    { [index |-> 0, name |-> "b"],
      [index |-> 1, name |-> "a"],
      [index |-> 2, name |-> "c"],
      [index |-> 3, name |-> "d"] }

\* The layers the brush paints with.
Brush == { l \in Catalog : l.index < 2 }

\* The layers a store is called with directly: any layer of the catalog on
\* a SequenceLayerStore, three of them on the other two.
CellLayers(style) ==
    IF style = "SEQUENCE" THEN Catalog ELSE { l \in Catalog : l.index < 3 }

\* The squares of a Grid(draw_style, x, y).
Cells == { <<0, 0>> }

DRAW_STYLE_OPTIONS == <<"SET", "ADD", "SEQUENCE">>

DEFAULT_BRUSH_SIZE == 2

MAX_BRUSH == 5

MIN_BRUSH == 0


-----------------------------------------------------------------------------
(* data_structures/stack_adt.py: ArrayStack(max_capacity), a bounded array  *)
(* stack. A stack is the sequence of its items, bottom first; the capacity  *)
(* is passed where it matters. push on a full stack is an error of the      *)
(* container (every caller in the source tests is_full first or pops        *)
(* first): it raises, and the exception leaves the stack as it was.         *)

ArrayStack_is_empty(stack) == Len(stack) = 0

ArrayStack_is_full(stack, capacity) == Len(stack) >= capacity

ArrayStack_push(stack, capacity, item) ==
    IF ArrayStack_is_full(stack, capacity)
    THEN [stack |-> stack, raised |-> "StackFull"]
    ELSE [stack |-> Append(stack, item), raised |-> "none"]

ArrayStack_peek(stack) == stack[Len(stack)]

ArrayStack_pop(stack) == SubSeq(stack, 1, Len(stack) - 1)

(* data_structures/queue_adt.py: CircularQueue(max_capacity), a bounded     *)
(* FIFO. A queue is the sequence of its items, front first.                 *)

CircularQueue_is_empty(queue) == Len(queue) = 0

CircularQueue_is_full(queue, capacity) == Len(queue) >= capacity

CircularQueue_append(queue, item) == Append(queue, item)

CircularQueue_serve(queue) == [item |-> Head(queue), queue |-> Tail(queue)]

CircularQueue_clear(queue) == <<>>

(* data_structures/array_sorted_list.py: ArraySortedList of ListItem(value, *)
(* key), kept in ascending order of key. Keys are layer indexes, or layer   *)
(* names ordered lexicographically.                                         *)

ListItem(value, key) == [value |-> value, key |-> key]

\* The names of the catalog in lexicographic order.
NameOrder == <<"a", "b", "c", "d">>

NameRank(name) == CHOOSE i \in 1..Len(NameOrder) : NameOrder[i] = name

ArraySortedList_contains(list, item) ==
    \E i \in 1..Len(list) : list[i] = item

\* The position (from 0) at which item is or would be inserted, in a list
\* keyed by layer index.
ArraySortedList_index_to_add(list, item) ==
    Cardinality({ i \in 1..Len(list) : list[i].key < item.key })

\* An item already held is not inserted a second time.
ArraySortedList_add(list, item) ==
    IF ArraySortedList_contains(list, item)
    THEN list
    ELSE LET position == ArraySortedList_index_to_add(list, item)
         IN  SubSeq(list, 1, position) \o <<item>>
                 \o SubSeq(list, position + 1, Len(list))

\* The same two for a list keyed by layer name: the keys are strings, and
\* key1 < key2 is their lexicographic order.
NameLess(key1, key2) == NameRank(key1) < NameRank(key2)

ArraySortedList_index_to_add_name(list, item) ==
    Cardinality({ i \in 1..Len(list) : NameLess(list[i].key, item.key) })

ArraySortedList_add_name(list, item) ==
    IF ArraySortedList_contains(list, item)
    THEN list
    ELSE LET position == ArraySortedList_index_to_add_name(list, item)
         IN  SubSeq(list, 1, position) \o <<item>>
                 \o SubSeq(list, position + 1, Len(list))

ArraySortedList_index(list, item) ==
    (CHOOSE i \in 1..Len(list) : list[i] = item) - 1

ArraySortedList_delete_at_index(list, index) ==
    SubSeq(list, 1, index) \o SubSeq(list, index + 2, Len(list))

ArraySortedList_remove(list, item) ==
    ArraySortedList_delete_at_index(list, ArraySortedList_index(list, item))

-----------------------------------------------------------------------------
(* layer_store.py. A store operation yields the store after the call and    *)
(* the value the call returns: [self |-> store, ret |-> value].             *)

\* The layer kinds whose truth value is false. The class Layer is not among
\* the source files; the design admits elements that are falsy, and the
\* catalog of the model holds one.
FalsyLayers == { l \in Catalog : l.index = 2 }

\* The truth value of a layer, as "if result_layer" tests it
\* (layer_store.py:308).
Layer_truthy(layer) == layer \notin FalsyLayers

\* layers.py: the transform of a layer. A colour is the start colour
\* followed by the names of the transforms applied to it, in their order.
Layer_apply(layer, colour) == Append(colour, layer.name)

\* The transform of the layer invert.
invert_apply(colour) == Append(colour, "invert")

(* SetLayerStore *)

SetLayerStore_init == [stack |-> <<>>, special_bool |-> FALSE]

\* add as it would be if it did not pop the layer held.
SetLayerStore_add_unpopped(self, layer) ==
    [self |-> [self EXCEPT !.stack = ArrayStack_push(self.stack, 1, layer).stack],
     ret |-> TRUE]

SetLayerStore_add(self, layer) ==
    IF ArrayStack_is_full(self.stack, 1)
    THEN LET popped == ArrayStack_pop(self.stack)
         IN  [self |-> [self EXCEPT !.stack = ArrayStack_push(popped, 1, layer).stack],
              ret |-> TRUE]
    ELSE [self |-> [self EXCEPT !.stack = ArrayStack_push(self.stack, 1, layer).stack],
          ret |-> TRUE]

SetLayerStore_erase(self, layer) ==
    IF ArrayStack_is_empty(self.stack)
    THEN [self |-> self, ret |-> ArrayStack_is_empty(self.stack)]
    ELSE LET popped == ArrayStack_pop(self.stack)
         IN  [self |-> [self EXCEPT !.stack = popped],
              ret |-> ArrayStack_is_empty(popped)]

SetLayerStore_special(self) ==
    IF ~self.special_bool
    THEN [self EXCEPT !.special_bool = TRUE]
    ELSE [self EXCEPT !.special_bool = FALSE]

\* get_color as it would be if it inverted first and applied the layer then.
SetLayerStore_get_color_invert_first(self, start) ==
    IF ~self.special_bool
    THEN IF ArrayStack_is_empty(self.stack)
         THEN [self |-> self, ret |-> start]
         ELSE [self |-> self,
               ret |-> Layer_apply(ArrayStack_peek(self.stack), start)]
    ELSE IF ArrayStack_is_empty(self.stack)
         THEN [self |-> self, ret |-> invert_apply(start)]
         ELSE [self |-> self,
               ret |-> Layer_apply(ArrayStack_peek(self.stack), invert_apply(start))]

SetLayerStore_get_color(self, start) ==
    IF ~self.special_bool
    THEN IF ArrayStack_is_empty(self.stack)
         THEN [self |-> self, ret |-> start]
         ELSE LET layer_peek == ArrayStack_peek(self.stack)
              IN  [self |-> self, ret |-> Layer_apply(layer_peek, start)]
    ELSE IF ArrayStack_is_empty(self.stack)
         THEN [self |-> self, ret |-> invert_apply(start)]
         ELSE LET layer_peek == ArrayStack_peek(self.stack)
                  current_color == Layer_apply(layer_peek, start)
              IN  [self |-> self, ret |-> invert_apply(current_color)]

(* AdditiveLayerStore *)

\* self.max_size = len(get_layers()); the queue holds max_size * 100 layers.
AdditiveLayerStore_capacity == Cardinality(Catalog) * PerLayer

AdditiveLayerStore_init == [queue |-> <<>>]

\* add as it would be without the test of is_full.
AdditiveLayerStore_add_unguarded(self, layer) ==
    LET queue_length == Len(self.queue)
        appended == CircularQueue_append(self.queue, layer)
    IN  [self |-> [self EXCEPT !.queue = appended],
         ret |-> (queue_length + 1 = Len(appended))]

AdditiveLayerStore_add(self, layer) ==
    IF ~CircularQueue_is_full(self.queue, AdditiveLayerStore_capacity)
    THEN LET queue_length == Len(self.queue)
             appended == CircularQueue_append(self.queue, layer)
         IN  [self |-> [self EXCEPT !.queue = appended],
              ret |-> (queue_length + 1 = Len(appended))]
    ELSE [self |-> self, ret |-> FALSE]

\* erase as it would be if it removed the layer added last.
AdditiveLayerStore_erase_newest(self, layer) ==
    IF ~CircularQueue_is_empty(self.queue)
    THEN [self |-> [self EXCEPT !.queue = SubSeq(self.queue, 1, Len(self.queue) - 1)],
          ret |-> TRUE]
    ELSE [self |-> self, ret |-> FALSE]

\* erase as it would be if it served the head only when it is the layer
\* passed.
AdditiveLayerStore_erase_named(self, layer) ==
    IF ~CircularQueue_is_empty(self.queue) /\ Head(self.queue) = layer
    THEN [self |-> [self EXCEPT !.queue = CircularQueue_serve(self.queue).queue],
          ret |-> TRUE]
    ELSE [self |-> self, ret |-> FALSE]

AdditiveLayerStore_erase(self, layer) ==
    IF ~CircularQueue_is_empty(self.queue)
    THEN LET queue_length == Len(self.queue)
             served == CircularQueue_serve(self.queue).queue
         IN  [self |-> [self EXCEPT !.queue = served],
              ret |-> (queue_length = Len(served) + 1)]
    ELSE [self |-> self, ret |-> FALSE]

\* The first loop of special: every layer is served, pushed on result_stack
\* and appended to the queue again; i counts the iterations left.
RECURSIVE AdditiveLayerStore_special_fill(_, _, _)
AdditiveLayerStore_special_fill(queue, result_stack, i) ==
    IF i = 0
    THEN [queue |-> queue, result_stack |-> result_stack]
    ELSE LET served == CircularQueue_serve(queue)
         IN  AdditiveLayerStore_special_fill(
                 CircularQueue_append(served.queue, served.item),
                 ArrayStack_push(result_stack, AdditiveLayerStore_capacity,
                                 served.item).stack,
                 i - 1)

\* The second loop: result_stack is popped into result_queue, a layer being
\* appended only if it is truthy.
RECURSIVE AdditiveLayerStore_special_drain(_, _)
AdditiveLayerStore_special_drain(result_stack, result_queue) ==
    IF ArrayStack_is_empty(result_stack)
    THEN result_queue
    ELSE LET result_layer == ArrayStack_peek(result_stack)
         IN  AdditiveLayerStore_special_drain(
                 ArrayStack_pop(result_stack),
                 IF Layer_truthy(result_layer)
                 THEN CircularQueue_append(result_queue, result_layer)
                 ELSE result_queue)

AdditiveLayerStore_special(self) ==
    LET filled == AdditiveLayerStore_special_fill(self.queue, <<>>, Len(self.queue))
    IN  [self EXCEPT !.queue =
            AdditiveLayerStore_special_drain(filled.result_stack, <<>>)]

\* The loop of get_color: while count < length, the front layer is served,
\* applied to the colour and appended to the queue again.
RECURSIVE AdditiveLayerStore_get_color_loop(_, _, _)
AdditiveLayerStore_get_color_loop(queue, colour, count) ==
    IF count >= Len(queue)
    THEN [queue |-> queue, colour |-> colour]
    ELSE LET served == CircularQueue_serve(queue)
         IN  AdditiveLayerStore_get_color_loop(
                 CircularQueue_append(served.queue, served.item),
                 Layer_apply(served.item, colour),
                 count + 1)

\* get_color as it would be if count started at 1.
AdditiveLayerStore_get_color_short(self, start) ==
    LET looped == AdditiveLayerStore_get_color_loop(self.queue, start, 1)
    IN  [self |-> [self EXCEPT !.queue = looped.queue], ret |-> looped.colour]

AdditiveLayerStore_get_color(self, start) ==
    LET looped == AdditiveLayerStore_get_color_loop(self.queue, start, 0)
    IN  [self |-> [self EXCEPT !.queue = looped.queue], ret |-> looped.colour]

(* SequenceLayerStore *)

SequenceLayerStore_init == [sorted_list |-> <<>>]

\* add as it would be if the key of the item were the name of the layer.
SequenceLayerStore_add_by_name(self, layer) ==
    LET key == layer.name
        list_item == ListItem(layer, key)
        added == ArraySortedList_add_name(self.sorted_list, list_item)
    IN  [self |-> [self EXCEPT !.sorted_list = added],
         ret |-> ArraySortedList_contains(added, list_item)]

SequenceLayerStore_add(self, layer) ==
    LET key == layer.index
        list_item == ListItem(layer, key)
        added == ArraySortedList_add(self.sorted_list, list_item)
    IN  [self |-> [self EXCEPT !.sorted_list = added],
         ret |-> ArraySortedList_contains(added, list_item)]

\* The loop of erase: on each of its i iterations the item is removed if the
\* list contains it.
RECURSIVE SequenceLayerStore_erase_loop(_, _, _)
SequenceLayerStore_erase_loop(list, erase_list_item, i) ==
    IF i <= 0
    THEN list
    ELSE SequenceLayerStore_erase_loop(
             IF ArraySortedList_contains(list, erase_list_item)
             THEN ArraySortedList_remove(list, erase_list_item)
             ELSE list,
             erase_list_item, i - 1)

\* erase as it would be if its loop ran one time less.
SequenceLayerStore_erase_short(self, layer) ==
    LET key == layer.index
        erase_list_item == ListItem(layer, key)
        erased == SequenceLayerStore_erase_loop(self.sorted_list, erase_list_item,
                                                Len(self.sorted_list) - 1)
    IN  [self |-> [self EXCEPT !.sorted_list = erased],
         ret |-> ArraySortedList_contains(erased, erase_list_item)]

SequenceLayerStore_erase(self, layer) ==
    LET key == layer.index
        erase_list_item == ListItem(layer, key)
        erased == SequenceLayerStore_erase_loop(self.sorted_list, erase_list_item,
                                                Len(self.sorted_list))
    IN  [self |-> [self EXCEPT !.sorted_list = erased],
         ret |-> ArraySortedList_contains(erased, erase_list_item)]

\* The view of special: the held layers, keyed and sorted by name.
RECURSIVE SequenceLayerStore_special_view(_, _, _)
SequenceLayerStore_special_view(sorted_list, special_sorted_list, i) ==
    IF i > Len(sorted_list)
    THEN special_sorted_list
    ELSE LET value == sorted_list[i].value
             key == value.name
         IN  SequenceLayerStore_special_view(
                 sorted_list,
                 ArraySortedList_add_name(special_sorted_list, ListItem(value, key)),
                 i + 1)

\* special as it would be if it took the upper of two middle names.
SequenceLayerStore_special_upper(self) ==
    IF Len(self.sorted_list) = 0
    THEN self
    ELSE LET special_sorted_list ==
                 SequenceLayerStore_special_view(self.sorted_list, <<>>, 1)
             index == Len(special_sorted_list) \div 2
             new_value == special_sorted_list[index + 1].value
             new_list_item == ListItem(new_value, new_value.index)
             new_index == ArraySortedList_index(self.sorted_list, new_list_item)
         IN  [self EXCEPT !.sorted_list =
                 ArraySortedList_delete_at_index(self.sorted_list, new_index)]

SequenceLayerStore_special(self) ==
    IF Len(self.sorted_list) = 0
    THEN self
    ELSE LET special_sorted_list ==
                 SequenceLayerStore_special_view(self.sorted_list, <<>>, 1)
             index == IF Len(special_sorted_list) % 2 = 1
                      THEN Len(special_sorted_list) \div 2
                      ELSE (Len(special_sorted_list) \div 2) - 1
             item_to_delete == special_sorted_list[index + 1]
             new_value == item_to_delete.value
             new_key == new_value.index
             new_list_item == ListItem(new_value, new_key)
             new_index == ArraySortedList_index(self.sorted_list, new_list_item)
         IN  [self EXCEPT !.sorted_list =
                 ArraySortedList_delete_at_index(self.sorted_list, new_index)]

\* The loop of get_color: the layers of the list from position count on
\* (from 0), applied in the order of the list.
RECURSIVE SequenceLayerStore_get_color_loop(_, _, _)
SequenceLayerStore_get_color_loop(sorted_list, colour, count) ==
    IF count >= Len(sorted_list)
    THEN colour
    ELSE LET list_item == sorted_list[count + 1]
             layer == list_item.value
         IN  SequenceLayerStore_get_color_loop(
                 sorted_list, Layer_apply(layer, colour), count + 1)

SequenceLayerStore_get_color(self, start) ==
    [self |-> self,
     ret |-> SequenceLayerStore_get_color_loop(self.sorted_list, start, 0)]

(* The store of a square, by the grid's draw style. *)

LayerStore_init(style) ==
    CASE style = DRAW_STYLE_OPTIONS[1] -> SetLayerStore_init
      [] style = DRAW_STYLE_OPTIONS[2] -> AdditiveLayerStore_init
      [] style = DRAW_STYLE_OPTIONS[3] -> SequenceLayerStore_init

LayerStore_add(style, self, layer) ==
    CASE style = "SET" -> SetLayerStore_add(self, layer)
      [] style = "ADD" -> AdditiveLayerStore_add(self, layer)
      [] style = "SEQUENCE" -> SequenceLayerStore_add(self, layer)

LayerStore_erase(style, self, layer) ==
    CASE style = "SET" -> SetLayerStore_erase(self, layer)
      [] style = "ADD" -> AdditiveLayerStore_erase(self, layer)
      [] style = "SEQUENCE" -> SequenceLayerStore_erase(self, layer)

LayerStore_special(style, self) ==
    CASE style = "SET" -> SetLayerStore_special(self)
      [] style = "ADD" -> AdditiveLayerStore_special(self)
      [] style = "SEQUENCE" -> SequenceLayerStore_special(self)

LayerStore_get_color(style, self, start) ==
    CASE style = "SET" -> SetLayerStore_get_color(self, start)
      [] style = "ADD" -> AdditiveLayerStore_get_color(self, start)
      [] style = "SEQUENCE" -> SequenceLayerStore_get_color(self, start)

-----------------------------------------------------------------------------
(* grid.py *)

Grid_init(style) == [c \in Cells |-> LayerStore_init(style)]

Grid_special(style, g) == [c \in Cells |-> LayerStore_special(style, g[c])]

\* increase_brush_size as it would be without the test of MAX_BRUSH.
Grid_increase_brush_size_unbounded(size) == size + 1

Grid_increase_brush_size(size) ==
    IF size = MAX_BRUSH THEN size ELSE size + 1

Grid_decrease_brush_size(size) ==
    IF size = MIN_BRUSH THEN size ELSE size - 1

-----------------------------------------------------------------------------
(* action.py: a PaintAction is a list of steps, each one edit of one square *)
(* (Add or Erase of a layer), and the flag is_special. Its identity as an   *)
(* object is the field id.                                                  *)

PaintStep(cell, layer, op) == [cell |-> cell, layer |-> layer, op |-> op]

Steps == { PaintStep(c, l, o) : c \in Cells, l \in Brush, o \in {"Add", "Erase"} }

\* The actions the editing layer builds: a list of steps, or the special
\* action, which has no steps (replay.py:100-101).
PaintActions(id, lists) ==
    { [id |-> id, steps |-> steps, is_special |-> FALSE] : steps \in lists }
    \cup { [id |-> id, steps |-> <<>>, is_special |-> TRUE] }

\* Lists of at most one step, and of at most two.
ShortLists == { <<>> } \cup { <<step>> : step \in Steps }

StepLists == ShortLists \cup { <<s, t>> : s \in Steps, t \in Steps }

\* Lists of at most one step, which adds a layer.
AddLists == { steps \in ShortLists : \A i \in 1..Len(steps) : steps[i].op = "Add" }

\* The value None a call returns.
None == [id |-> 0, steps |-> <<>>, is_special |-> FALSE]

PaintStep_redo_apply(style, step, g) ==
    [g EXCEPT ![step.cell] =
        IF step.op = "Add"
        THEN LayerStore_add(style, g[step.cell], step.layer).self
        ELSE LayerStore_erase(style, g[step.cell], step.layer).self]

PaintStep_undo_apply(style, step, g) ==
    [g EXCEPT ![step.cell] =
        IF step.op = "Add"
        THEN LayerStore_erase(style, g[step.cell], step.layer).self
        ELSE LayerStore_add(style, g[step.cell], step.layer).self]

\* The steps from the i-th on, in their order.
RECURSIVE PaintAction_redo_steps(_, _, _, _)
PaintAction_redo_steps(style, steps, i, g) ==
    IF i > Len(steps)
    THEN g
    ELSE PaintAction_redo_steps(style, steps, i + 1,
                                PaintStep_redo_apply(style, steps[i], g))

\* The steps from the i-th down to the first, each one reversed.
RECURSIVE PaintAction_undo_steps(_, _, _, _)
PaintAction_undo_steps(style, steps, i, g) ==
    IF i = 0
    THEN g
    ELSE PaintAction_undo_steps(style, steps, i - 1,
                                PaintStep_undo_apply(style, steps[i], g))

PaintAction_redo_apply(style, action, g) ==
    LET stepped == PaintAction_redo_steps(style, action.steps, 1, g)
    IN  IF action.is_special THEN Grid_special(style, stepped) ELSE stepped

\* The steps from the i-th up to the last, each one reversed.
RECURSIVE PaintAction_undo_steps_forward(_, _, _, _)
PaintAction_undo_steps_forward(style, steps, i, g) ==
    IF i > Len(steps)
    THEN g
    ELSE PaintAction_undo_steps_forward(style, steps, i + 1,
                                        PaintStep_undo_apply(style, steps[i], g))

\* undo_apply as it would be if it kept the order of the steps.
PaintAction_undo_apply_in_order(style, action, g) ==
    LET specialled == IF action.is_special THEN Grid_special(style, g) ELSE g
    IN  PaintAction_undo_steps_forward(style, action.steps, 1, specialled)

PaintAction_undo_apply(style, action, g) ==
    LET specialled == IF action.is_special THEN Grid_special(style, g) ELSE g
    IN  PaintAction_undo_steps(style, action.steps, Len(action.steps), specialled)

-----------------------------------------------------------------------------
(* undo.py: UndoTracker. A call yields the two stacks and the grid after    *)
(* the call, the value returned, and the exception raised ("none" if none). *)

\* add_action as it would be if it emptied the redo stack.
UndoTracker_add_action_clearing(stack, redo, action) ==
    IF ArrayStack_is_full(stack, max_actions)
    THEN [action_stack |-> stack, redo_stack |-> <<>>, raised |-> "none"]
    ELSE [action_stack |-> Append(stack, action), redo_stack |-> <<>>,
          raised |-> "none"]

\* add_action as it would be without the test of is_full.
UndoTracker_add_action_unguarded(stack, redo, action) ==
    LET pushed == ArrayStack_push(stack, max_actions, action)
    IN  [action_stack |-> pushed.stack, redo_stack |-> redo,
         raised |-> pushed.raised]

UndoTracker_add_action(stack, redo, action) ==
    IF ArrayStack_is_full(stack, max_actions)
    THEN [action_stack |-> stack, redo_stack |-> redo, raised |-> "none"]
    ELSE LET pushed == ArrayStack_push(stack, max_actions, action)
         IN  [action_stack |-> pushed.stack, redo_stack |-> redo,
              raised |-> pushed.raised]

\* The else branch of undo as it would be without the pop.
UndoTracker_undo_top_kept(style, stack, redo, g) ==
    LET action == ArrayStack_peek(stack)
        pushed == ArrayStack_push(redo, max_actions, action)
    IN  [action_stack |-> stack, redo_stack |-> pushed.stack,
         grid |-> PaintAction_undo_apply(style, action, g),
         ret |-> IF pushed.raised = "none" THEN action ELSE None,
         raised |-> pushed.raised]

\* The else branch of undo: peek, undo_apply, push on the redo stack, pop.
UndoTracker_undo_top(style, stack, redo, g) ==
    LET action == ArrayStack_peek(stack)
        undone == PaintAction_undo_apply(style, action, g)
        pushed == ArrayStack_push(redo, max_actions, action)
    IN  IF pushed.raised # "none"
        THEN [action_stack |-> stack, redo_stack |-> redo, grid |-> undone,
              ret |-> None, raised |-> pushed.raised]
        ELSE [action_stack |-> ArrayStack_pop(stack),
              redo_stack |-> pushed.stack, grid |-> undone,
              ret |-> action, raised |-> "none"]

\* undo as it would be without the test of is_empty: peek raises.
UndoTracker_undo_unguarded(style, stack, redo, g) ==
    IF ArrayStack_is_empty(stack)
    THEN [action_stack |-> stack, redo_stack |-> redo, grid |-> g,
          ret |-> None, raised |-> "StackEmpty"]
    ELSE UndoTracker_undo_top(style, stack, redo, g)

UndoTracker_undo(style, stack, redo, g) ==
    IF ArrayStack_is_empty(stack)
    THEN [action_stack |-> stack, redo_stack |-> redo, grid |-> g,
          ret |-> None, raised |-> "none"]
    ELSE UndoTracker_undo_top(style, stack, redo, g)

\* The else branch of redo as it would be without the call of redo_apply.
UndoTracker_redo_top_unapplied(style, stack, redo, g) ==
    LET action == ArrayStack_peek(redo)
        pushed == ArrayStack_push(stack, max_actions, action)
    IN  IF pushed.raised # "none"
        THEN [action_stack |-> stack, redo_stack |-> redo, grid |-> g,
              ret |-> None, raised |-> pushed.raised]
        ELSE [action_stack |-> pushed.stack,
              redo_stack |-> ArrayStack_pop(redo), grid |-> g,
              ret |-> action, raised |-> "none"]

\* The else branch of redo: peek, redo_apply, push on the action stack, pop.
UndoTracker_redo_top(style, stack, redo, g) ==
    LET action == ArrayStack_peek(redo)
        redone == PaintAction_redo_apply(style, action, g)
        pushed == ArrayStack_push(stack, max_actions, action)
    IN  IF pushed.raised # "none"
        THEN [action_stack |-> stack, redo_stack |-> redo, grid |-> redone,
              ret |-> None, raised |-> pushed.raised]
        ELSE [action_stack |-> pushed.stack,
              redo_stack |-> ArrayStack_pop(redo), grid |-> redone,
              ret |-> action, raised |-> "none"]

UndoTracker_redo(style, stack, redo, g) ==
    IF ArrayStack_is_empty(redo)
    THEN [action_stack |-> stack, redo_stack |-> redo, grid |-> g,
          ret |-> None, raised |-> "none"]
    ELSE UndoTracker_redo_top(style, stack, redo, g)

-----------------------------------------------------------------------------
(* replay.py: ReplayTracker. Its two queues have the capacity max_actions   *)
(* of replay.py:25, the same number as the capacity of the UndoTracker.     *)

\* add_action as it would be without the test of is_full.
ReplayTracker_add_action_unguarded(queue, tracker, action, is_undo) ==
    [replay_queue |-> CircularQueue_append(queue, action),
     bool_tracker |-> CircularQueue_append(tracker, is_undo)]

\* add_action as it would be if it kept the flag of the first pair for
\* every later pair.
ReplayTracker_add_action_first_flag(queue, tracker, action, is_undo) ==
    IF CircularQueue_is_full(queue, max_actions)
    THEN [replay_queue |-> queue, bool_tracker |-> tracker]
    ELSE [replay_queue |-> CircularQueue_append(queue, action),
          bool_tracker |-> CircularQueue_append(
                               tracker,
                               IF tracker = <<>> THEN is_undo ELSE tracker[1])]

ReplayTracker_add_action(queue, tracker, action, is_undo) ==
    IF CircularQueue_is_full(queue, max_actions)
    THEN [replay_queue |-> queue, bool_tracker |-> tracker]
    ELSE [replay_queue |-> CircularQueue_append(queue, action),
          bool_tracker |-> CircularQueue_append(tracker, is_undo)]

\* play_next_action as it would be if it applied redo_apply whatever the flag.
ReplayTracker_play_next_action_redo_only(style, queue, tracker, g) ==
    IF CircularQueue_is_empty(queue)
    THEN [replay_queue |-> CircularQueue_clear(queue), bool_tracker |-> tracker,
          grid |-> g, ret |-> TRUE]
    ELSE LET action == CircularQueue_serve(queue).item
         IN  [replay_queue |-> CircularQueue_serve(queue).queue,
              bool_tracker |-> CircularQueue_serve(tracker).queue,
              grid |-> PaintAction_redo_apply(style, action, g),
              ret |-> FALSE]

ReplayTracker_play_next_action(style, queue, tracker, g) ==
    IF CircularQueue_is_empty(queue)
    THEN [replay_queue |-> CircularQueue_clear(queue), bool_tracker |-> tracker,
          grid |-> g, ret |-> TRUE]
    ELSE LET undo_bool == CircularQueue_serve(tracker).item
             action == CircularQueue_serve(queue).item
         IN  [replay_queue |-> CircularQueue_serve(queue).queue,
              bool_tracker |-> CircularQueue_serve(tracker).queue,
              grid |-> IF ~undo_bool
                       THEN PaintAction_redo_apply(style, action, g)
                       ELSE PaintAction_undo_apply(style, action, g),
              ret |-> FALSE]

-----------------------------------------------------------------------------
(* The state machine: a Grid and an UndoTracker, driven by the editing      *)
(* layer. An uncaught exception ends the program.                           *)

\* The value of the variable returned: nothing yet, a bool, a colour.
NoValue == [bool |-> FALSE, colour |-> <<>>]

Bool(value) == [bool |-> value, colour |-> <<>>]

Colour(value) == [bool |-> FALSE, colour |-> value]

\* The layer of a call that is passed none.
NoLayer == [index |-> 0 - 1, name |-> "none"]

\* The colour get_color starts from.
StartColour == <<"start">>

Init ==
    /\ draw_style \in { DRAW_STYLE_OPTIONS[i] : i \in 1..3 }
    /\ grid = Grid_init(draw_style)
    /\ action_stack = <<>>
    /\ redo_stack = <<>>
    /\ raised = "none"
    /\ last = [op |-> "init", ret |-> None]
    /\ next_id = 1
    /\ applied = <<>>
    /\ run = [phase |-> "paint", snap |-> Grid_init(draw_style)]
    /\ replay_queue = <<>>
    /\ bool_tracker = <<>>
    /\ recorded = <<>>
    /\ played = 0
    /\ returned = NoValue
    /\ given = [action |-> None, is_undo |-> FALSE]
    /\ cell_call = [cell |-> <<0, 0>>, layer |-> NoLayer,
                    before |-> LayerStore_init(draw_style)]
    /\ brush_size = DEFAULT_BRUSH_SIZE

Off == [phase |-> "off", snap |-> <<>>]

\* A gesture: the editing layer builds a new action, applies it to the grid
\* and hands it to add_action.
PaintWith(actions) ==
    /\ raised = "none"
    /\ \E action \in actions :
        LET painted == PaintAction_redo_apply(draw_style, action, grid)
            r == UndoTracker_add_action(action_stack, redo_stack, action)
            kept == r.action_stack # action_stack
        IN  /\ grid' = painted
            /\ action_stack' = r.action_stack
            /\ redo_stack' = r.redo_stack
            /\ raised' = r.raised
            /\ last' = [op |-> "add_action", ret |-> None]
            /\ applied' = IF kept
                          THEN Append(applied, [pre |-> grid, post |-> painted])
                          ELSE applied
            /\ run' = IF run.phase = "paint" /\ kept
                      THEN [phase |-> "paint", snap |-> painted]
                      ELSE Off
    /\ next_id' = next_id + 1
    /\ UNCHANGED <<draw_style, replay_vars, cell_call, brush_size>>

Paint ==
    /\ next_id <= MaxGestures
    /\ PaintWith(PaintActions(next_id, ShortLists))

Undo ==
    /\ raised = "none"
    /\ LET r == UndoTracker_undo(draw_style, action_stack, redo_stack, grid)
       IN  /\ action_stack' = r.action_stack
           /\ redo_stack' = r.redo_stack
           /\ grid' = r.grid
           /\ raised' = r.raised
           /\ last' = [op |-> "undo", ret |-> r.ret]
           /\ applied' = IF r.ret # None
                         THEN SubSeq(applied, 1, Len(applied) - 1)
                         ELSE applied
           /\ run' = IF r.ret = None /\ r.raised = "none"
                     THEN run
                     ELSE IF r.raised = "none" /\ run.phase \in {"paint", "undo"}
                          THEN [run EXCEPT !.phase = "undo"]
                          ELSE Off
    /\ UNCHANGED <<draw_style, next_id, replay_vars, cell_call, brush_size>>

Redo ==
    /\ raised = "none"
    /\ LET r == UndoTracker_redo(draw_style, action_stack, redo_stack, grid)
       IN  /\ action_stack' = r.action_stack
           /\ redo_stack' = r.redo_stack
           /\ grid' = r.grid
           /\ raised' = r.raised
           /\ last' = [op |-> "redo", ret |-> r.ret]
           /\ applied' = IF r.ret # None
                         THEN Append(applied, [pre |-> grid, post |-> r.grid])
                         ELSE applied
           /\ run' = IF r.ret = None /\ r.raised = "none"
                     THEN run
                     ELSE IF /\ r.raised = "none"
                             /\ \/ run.phase = "redo"
                                \/ run.phase = "undo" /\ action_stack = <<>>
                          THEN [run EXCEPT !.phase = "redo"]
                          ELSE Off
    /\ UNCHANGED <<draw_style, next_id, replay_vars, cell_call, brush_size>>

Next == Paint \/ Undo \/ Redo

Spec == Init /\ [][Next]_vars

(* The run "k paints, k undos, k redos" on a fresh tracker, k <= max_actions, *)
(* with actions of up to two steps.                                         *)

RunPaint ==
    /\ run.phase = "paint"
    /\ next_id <= max_actions
    /\ PaintWith(PaintActions(next_id, StepLists))

RunUndo ==
    /\ run.phase \in {"paint", "undo"}
    /\ action_stack # <<>>
    /\ Undo

RunRedo ==
    /\ run.phase \in {"undo", "redo"}
    /\ action_stack = <<>> \/ run.phase = "redo"
    /\ redo_stack # <<>>
    /\ Redo

RunNext == RunPaint \/ RunUndo \/ RunRedo

SpecRun == Init /\ [][RunNext]_vars

(* A Grid and a ReplayTracker: the editing layer records actions, starts    *)
(* the replay and plays the recorded actions, in any interleaving. The      *)
(* player keeps calling play_next_action.                                   *)

\* A pair (action, is_undo) as the replay was given it.
Pair(action, is_undo) == [action |-> action, is_undo |-> is_undo]

Record ==
    /\ raised = "none"
    /\ next_id <= MaxGestures
    /\ \E action \in PaintActions(next_id, AddLists), is_undo \in BOOLEAN :
        LET r == ReplayTracker_add_action(replay_queue, bool_tracker,
                                          action, is_undo)
        IN  /\ replay_queue' = r.replay_queue
            /\ bool_tracker' = r.bool_tracker
            /\ given' = Pair(action, is_undo)
            /\ recorded' = IF r.replay_queue # replay_queue
                           THEN Append(recorded, Pair(action, is_undo))
                           ELSE recorded
    /\ last' = [op |-> "record", ret |-> None]
    /\ next_id' = next_id + 1
    /\ returned' = NoValue
    /\ UNCHANGED <<draw_style, grid, raised, played, undo_vars, cell_call, brush_size>>

StartReplay ==
    /\ raised = "none"
    /\ last' = [op |-> "start_replay", ret |-> None]
    /\ returned' = NoValue
    /\ UNCHANGED <<draw_style, grid, raised, next_id, undo_vars,
                   replay_queue, bool_tracker, recorded, played, given,
                   cell_call, brush_size>>

PlayNext ==
    /\ raised = "none"
    /\ LET r == ReplayTracker_play_next_action(draw_style, replay_queue,
                                               bool_tracker, grid)
       IN  /\ replay_queue' = r.replay_queue
           /\ bool_tracker' = r.bool_tracker
           /\ grid' = r.grid
           /\ last' = [op |-> "play_next_action", ret |-> None]
           /\ returned' = Bool(r.ret)
           /\ played' = IF r.ret THEN played ELSE played + 1
    /\ UNCHANGED <<draw_style, raised, next_id, recorded, given, undo_vars,
                   cell_call, brush_size>>

ReplayNext == Record \/ StartReplay \/ PlayNext

SpecReplay == Init /\ [][ReplayNext]_vars /\ WF_vars(PlayNext)

(* A Grid whose squares are called directly: add, erase, special and        *)
(* get_color of the store of a square, with any layer of the catalog.       *)

\* The call op on the store of square c, passed layer; store is the store
\* after the call and value is what the call returned.
CellCall(op, c, layer, store, value) ==
    /\ raised = "none"
    /\ grid' = [grid EXCEPT ![c] = store]
    /\ last' = [op |-> op, ret |-> None]
    /\ returned' = value
    /\ cell_call' = [cell |-> c, layer |-> layer, before |-> grid[c]]
    /\ UNCHANGED <<draw_style, raised, next_id, undo_vars,
                   replay_queue, bool_tracker, recorded, played, given,
                   brush_size>>

CellAdd ==
    \E c \in Cells, layer \in CellLayers(draw_style) :
        LET r == LayerStore_add(draw_style, grid[c], layer)
        IN  CellCall("add", c, layer, r.self, Bool(r.ret))

CellErase ==
    \E c \in Cells, layer \in CellLayers(draw_style) :
        LET r == LayerStore_erase(draw_style, grid[c], layer)
        IN  CellCall("erase", c, layer, r.self, Bool(r.ret))

CellSpecial ==
    \E c \in Cells :
        CellCall("special", c, NoLayer,
                 LayerStore_special(draw_style, grid[c]), NoValue)

CellGetColor ==
    \E c \in Cells :
        LET r == LayerStore_get_color(draw_style, grid[c], StartColour)
        IN  CellCall("get_color", c, NoLayer, r.self, Colour(r.ret))

\* The call op of the grid that sets the brush size.
BrushCall(op, size) ==
    /\ raised = "none"
    /\ brush_size' = size
    /\ last' = [op |-> op, ret |-> None]
    /\ returned' = NoValue
    /\ UNCHANGED <<draw_style, grid, raised, next_id, undo_vars,
                   replay_queue, bool_tracker, recorded, played, given,
                   cell_call>>

IncreaseBrush ==
    BrushCall("increase_brush_size", Grid_increase_brush_size(brush_size))

DecreaseBrush ==
    BrushCall("decrease_brush_size", Grid_decrease_brush_size(brush_size))

CellNext ==
    \/ CellAdd
    \/ CellErase
    \/ CellSpecial
    \/ CellGetColor
    \/ IncreaseBrush
    \/ DecreaseBrush

SpecCell == Init /\ [][CellNext]_vars

-----------------------------------------------------------------------------
(* Properties of the UndoTracker.                                           *)

\* The identities of the actions held by a stack.
Ids(stack) == { stack[i].id : i \in 1..Len(stack) }

\* A step taken by a call of undo, of redo, of add_action.
UndoCall == last'.op = "undo"

RedoCall == last'.op = "redo"

AddActionCall == last'.op = "add_action"

\* C1: no call of add_action, undo or redo raises, a full or an empty stack
\* being a silent no-op, and neither stack ever holds more than max_actions
\* actions.
C1_NoCallRaises ==
    /\ raised = "none"
    /\ Len(action_stack) <= max_actions
    /\ Len(redo_stack) <= max_actions

\* C2: undo with a non-empty action stack removes the top action from it,
\* applies undo_apply of that action to the grid once, pushes the action on
\* the redo stack and returns it; the other entries of both stacks stay.
C2_UndoMovesTop ==
    [][ (UndoCall /\ action_stack # <<>>) =>
            LET action == action_stack[Len(action_stack)]
            IN  /\ action_stack' = SubSeq(action_stack, 1, Len(action_stack) - 1)
                /\ redo_stack' = redo_stack \o <<action>>
                /\ grid' = PaintAction_undo_apply(draw_style, action, grid)
                /\ last'.ret = action
                /\ raised' = "none" ]_vars

\* C3: redo with a non-empty redo stack removes the top action from it,
\* applies redo_apply of that action to the grid once, pushes the action on
\* the action stack and returns it.
C3_RedoMovesTop ==
    [][ (RedoCall /\ redo_stack # <<>>) =>
            LET action == redo_stack[Len(redo_stack)]
            IN  /\ redo_stack' = SubSeq(redo_stack, 1, Len(redo_stack) - 1)
                /\ action_stack' = action_stack \o <<action>>
                /\ grid' = PaintAction_redo_apply(draw_style, action, grid)
                /\ last'.ret = action
                /\ raised' = "none" ]_vars

\* C4: undo with an empty action stack, and redo with an empty redo stack,
\* return None and leave both stacks and the grid unchanged.
C4_NothingPending ==
    [][ (\/ UndoCall /\ action_stack = <<>>
         \/ RedoCall /\ redo_stack = <<>>) =>
            /\ last'.ret = None
            /\ raised' = "none"
            /\ UNCHANGED <<action_stack, redo_stack, grid>> ]_vars

\* C4, the case: undo was called with nothing to undo while the grid was
\* painted and actions were waiting on the redo stack.
C4_Witness ==
    /\ last.op = "undo"
    /\ last.ret = None
    /\ raised = "none"
    /\ action_stack = <<>>
    /\ redo_stack # <<>>
    /\ grid # Grid_init(draw_style)

\* C5: add_action leaves the redo stack as it was, whether the action was
\* pushed or dropped.
C5_AddKeepsRedo ==
    [][ AddActionCall => redo_stack' = redo_stack ]_vars

\* C5, the case: an action was added while undone actions were waiting.
C5_Witness ==
    /\ last.op = "add_action"
    /\ redo_stack # <<>>
    /\ (next_id - 1) \in Ids(action_stack)

\* C6: add_action on a full action stack does not raise, drops the action
\* and leaves the max_actions entries of the stack as they were.
C6_AddWhenFull ==
    [][ (AddActionCall /\ Len(action_stack) = max_actions) =>
            /\ raised' = "none"
            /\ action_stack' = action_stack ]_vars

\* C6, the case: the action created last was handed to add_action and is in
\* neither stack, the action stack being full.
C6_Witness ==
    /\ last.op = "add_action"
    /\ raised = "none"
    /\ Len(action_stack) = max_actions
    /\ (next_id - 1) \notin Ids(action_stack) \cup Ids(redo_stack)

\* C7: no action is in the action stack and in the redo stack at once.
C7_NeverInBoth == Ids(action_stack) \cap Ids(redo_stack) = {}

\* C7, the case: both stacks hold actions, one of them undone and redone.
C7_Witness ==
    /\ action_stack # <<>>
    /\ redo_stack # <<>>
    /\ last.op = "redo"
    /\ last.ret # None

-----------------------------------------------------------------------------
(* Properties of undo and redo on the grid.                                 *)

\* C8: after k <= max_actions actions were applied to a fresh grid and
\* recorded with add_action, k undos followed by k redos leave the grid as
\* it was right after the k actions, whatever the draw style and the steps.
C8_UndoRedoRoundTrip ==
    (run.phase = "redo" /\ redo_stack = <<>>) => grid = run.snap

\* C8, the case: max_actions actions were painted on an ADD grid, all were
\* undone and all were redone, and the square holds several layers.
C8_Witness ==
    /\ run.phase = "redo"
    /\ redo_stack = <<>>
    /\ Len(action_stack) = max_actions
    /\ draw_style = "ADD"
    /\ \E c \in Cells : Len(grid[c].queue) >= 2

\* An undo step that undoes the top action while the grid is as the last
\* forward application of that action left it (strict LIFO order).
UndoInOrder ==
    /\ UndoCall
    /\ action_stack # <<>>
    /\ last'.ret = action_stack[Len(action_stack)]
    /\ Len(applied) = Len(action_stack)
    /\ grid = applied[Len(applied)].post

\* The action such a step undoes, and the grid before that action was applied.
Top == action_stack[Len(action_stack)]

TopPre == applied[Len(applied)].pre

\* Whether a step changes a store it can be reversed on: Add puts a layer
\* the store does not hold (SET: the store holds none), Erase removes the
\* layer it names.
StepReversible(style, step, g) ==
    LET self == g[step.cell]
    IN  CASE style = "SET" ->
                IF step.op = "Add"
                THEN self.stack = <<>>
                ELSE self.stack = <<step.layer>>
          [] style = "SEQUENCE" ->
                IF step.op = "Add"
                THEN ~ArraySortedList_contains(self.sorted_list,
                                               ListItem(step.layer, step.layer.index))
                ELSE ArraySortedList_contains(self.sorted_list,
                                              ListItem(step.layer, step.layer.index))
          [] OTHER -> FALSE

\* Whether every step from the i-th on is reversible on the grid it meets.
RECURSIVE StepsReversible(_, _, _, _)
StepsReversible(style, steps, i, g) ==
    \/ i > Len(steps)
    \/ /\ StepReversible(style, steps[i], g)
       /\ StepsReversible(style, steps, i + 1,
                          PaintStep_redo_apply(style, steps[i], g))

\* C9: on a SET or SEQUENCE grid, applying an action of Add and Erase steps
\* and then undo_apply of it restores every square to its state before the
\* action.
C9_UndoRestores ==
    [][ (/\ UndoInOrder
         /\ draw_style \in {"SET", "SEQUENCE"}
         /\ ~Top.is_special) => grid' = TopPre ]_vars

\* C9 as amended: the squares are restored provided every step of the
\* action was reversible on the store it met.
C9_UndoRestoresReversible ==
    [][ (/\ UndoInOrder
         /\ draw_style \in {"SET", "SEQUENCE"}
         /\ ~Top.is_special
         /\ StepsReversible(draw_style, Top.steps, 1, TopPre)) =>
            grid' = TopPre ]_vars

\* C9, the case: an action of two steps that changed a painted SEQUENCE
\* square was undone right after it was applied.
C9_Witness ==
    /\ last.op = "undo"
    /\ last.ret # None
    /\ draw_style = "SEQUENCE"
    /\ Len(last.ret.steps) = 2
    /\ action_stack # <<>>
    /\ Len(applied) = Len(action_stack)
    /\ grid = applied[Len(applied)].post
    /\ grid # Grid_init(draw_style)
    /\ StepsReversible(draw_style, last.ret.steps, 1, grid)
    /\ PaintAction_redo_apply(draw_style, last.ret, grid) # grid

\* Whether an action only adds layers, and adds some.
AddsOnly(action) ==
    /\ ~action.is_special
    /\ action.steps # <<>>
    /\ \A i \in 1..Len(action.steps) : action.steps[i].op = "Add"

\* The number of steps of an action on a square.
StepsOn(action, c) ==
    Cardinality({ i \in 1..Len(action.steps) : action.steps[i].cell = c })

\* A queue without its n oldest layers.
WithoutOldest(queue, n) ==
    IF n >= Len(queue) THEN <<>> ELSE SubSeq(queue, n + 1, Len(queue))

-----------------------------------------------------------------------------
(* Properties of the ReplayTracker.                                         *)

\* A step taken by a call of add_action of the replay, of play_next_action.
RecordCall == last'.op = "record"

PlayCall == last'.op = "play_next_action"

\* The grid after a pair was played on it.
Played(pair, g) ==
    IF pair.is_undo
    THEN PaintAction_undo_apply(draw_style, pair.action, g)
    ELSE PaintAction_redo_apply(draw_style, pair.action, g)

\* C11: playback is first in, first out and ends. While recorded pairs are
\* left, play_next_action returns False, applies the oldest pair left
\* (undo_apply if its flag is set, redo_apply otherwise) and leaves one pair
\* less; once the n pairs were played it returns True and changes nothing;
\* and the call that returns True does come.
C11_PlaybackFifo ==
    /\ [][ PlayCall =>
              IF played < Len(recorded)
              THEN /\ returned' = Bool(FALSE)
                   /\ grid' = Played(recorded[played + 1], grid)
                   /\ Len(replay_queue') = Len(replay_queue) - 1
              ELSE /\ returned' = Bool(TRUE)
                   /\ UNCHANGED <<grid, replay_queue, bool_tracker>> ]_vars
    /\ <>(last.op = "play_next_action" /\ returned = Bool(TRUE)
             /\ played = Len(recorded))

\* C11, the case: two pairs were recorded, the second an undo that changes
\* the grid; both were played, in that order, and the next call returned True.
C11_Witness ==
    /\ last.op = "play_next_action"
    /\ returned = Bool(TRUE)
    /\ played = 2
    /\ Len(recorded) = 2
    /\ ~recorded[1].is_undo
    /\ recorded[2].is_undo
    /\ grid = Played(recorded[2], Played(recorded[1], Grid_init(draw_style)))
    /\ grid # Played(recorded[1], Played(recorded[2], Grid_init(draw_style)))
    /\ grid # Played(Pair(recorded[2].action, FALSE),
                     Played(recorded[1], Grid_init(draw_style)))

\* C12: in every state the two queues of the replay have the same length,
\* and the i-th flag of bool_tracker is the flag that was recorded together
\* with the i-th action of replay_queue.
C12_QueuesInStep ==
    /\ Len(replay_queue) = Len(bool_tracker)
    /\ Len(recorded) = played + Len(replay_queue)
    /\ \A i \in 1..Len(replay_queue) :
          Pair(replay_queue[i], bool_tracker[i]) = recorded[played + i]

\* C12, the case: after a pair was played and a later one recorded, the
\* queues hold two pairs with different flags.
C12_Witness ==
    /\ played >= 1
    /\ last.op = "record"
    /\ Len(replay_queue) = 2
    /\ Len(bool_tracker) = 2
    /\ bool_tracker[1] # bool_tracker[2]
    /\ recorded[1].is_undo # bool_tracker[1]

\* C13: add_action on a replay that holds max_actions pairs does not raise
\* and leaves both queues as they were; below that it appends the action to
\* replay_queue and the flag to bool_tracker.
C13_RecordWhenFull ==
    [][ RecordCall =>
          /\ raised' = "none"
          /\ IF Len(replay_queue) = max_actions
             THEN UNCHANGED <<replay_queue, bool_tracker>>
             ELSE /\ replay_queue' = replay_queue \o <<given'.action>>
                  /\ bool_tracker' = bool_tracker \o <<given'.is_undo>> ]_vars

\* C13, the case: a pair was handed to add_action while the replay was full,
\* and it is not in the queues, which hold the earlier pairs.
C13_Witness ==
    /\ last.op = "record"
    /\ raised = "none"
    /\ Len(replay_queue) = max_actions
    /\ Len(bool_tracker) = max_actions
    /\ given.action.id \notin Ids(replay_queue)
    /\ \A i \in 1..max_actions : replay_queue[i] = recorded[played + i].action

-----------------------------------------------------------------------------
(* Properties of the layer stores. They are stated of the last call: the    *)
(* store it was made on, the store it left and the value it returned.       *)

\* The store the last call was made on, as it is now and as it was before.
Now == grid[cell_call.cell]

Before == cell_call.before

\* Whether the last call was op on a store of the given draw style.
Called(style, op) == draw_style = style /\ last.op = op

C15_SetEraseReturn ==
    Called("SET", "erase") =>
        /\ Now.stack = <<>>
        /\ returned = Bool(Before.stack # <<>>)

\* The colour a SetLayerStore shows, by the four cases of layer and flag.
SetColour(self, start) ==
    CASE self.stack = <<>> /\ ~self.special_bool -> start
      [] self.stack = <<>> /\ self.special_bool -> invert_apply(start)
      [] self.stack # <<>> /\ ~self.special_bool ->
             Layer_apply(self.stack[1], start)
      [] self.stack # <<>> /\ self.special_bool ->
             invert_apply(Layer_apply(self.stack[1], start))

\* C16: special of a SetLayerStore toggles special_bool and changes nothing
\* else, so that two specials restore the store; get_color returns start,
\* invert of start, the layer applied to start, or invert of the layer
\* applied to start, by whether a layer is held and special_bool is set; add
\* and erase leave special_bool as it was.
C16_SetSpecialInverts ==
    draw_style = "SET" =>
        /\ Called("SET", "special") =>
              Now = [Before EXCEPT !.special_bool = ~Before.special_bool]
        /\ SetLayerStore_special(SetLayerStore_special(Now)) = Now
        /\ Called("SET", "get_color") =>
              returned = Colour(SetColour(Before, StartColour))
        /\ last.op \in {"add", "erase"} =>
              Now.special_bool = Before.special_bool

\* C16, the case: get_color was called on a store that holds a layer and is
\* inverted, and returned the inverse of the layer's colour.
C16_Witness ==
    /\ Called("SET", "get_color")
    /\ Before.special_bool
    /\ Before.stack # <<>>
    /\ returned.colour = <<"start", Before.stack[1].name, "invert">>

\* C17: add of an AdditiveLayerStore that holds fewer layers than its
\* capacity appends the layer at the tail and returns True; at capacity it
\* returns False, does not raise and leaves the queue as it was. The queue
\* never holds more layers than the capacity.
C17_AddBounded ==
    draw_style = "ADD" =>
        /\ Len(Now.queue) <= AdditiveLayerStore_capacity
        /\ raised = "none"
        /\ Called("ADD", "add") =>
              IF Len(Before.queue) < AdditiveLayerStore_capacity
              THEN /\ Now.queue = Before.queue \o <<cell_call.layer>>
                   /\ returned = Bool(TRUE)
              ELSE /\ Now.queue = Before.queue
                   /\ returned = Bool(FALSE)

\* C17, the case: add was called on a full store and returned False.
C17_Witness ==
    /\ Called("ADD", "add")
    /\ Len(Before.queue) = AdditiveLayerStore_capacity
    /\ Now.queue = Before.queue
    /\ returned = Bool(FALSE)

\* C18: erase of an AdditiveLayerStore removes the head of the queue,
\* whatever layer is passed, keeps the order of the others and returns True;
\* on an empty queue it returns False, does not raise and changes nothing.
\* On a store special has reversed, the head is the head of the reversed
\* queue.
C18_EraseHead ==
    draw_style = "ADD" =>
        /\ raised = "none"
        /\ Called("ADD", "erase") =>
              IF Before.queue # <<>>
              THEN /\ Now.queue = Tail(Before.queue)
                   /\ returned = Bool(TRUE)
              ELSE /\ Now.queue = Before.queue
                   /\ returned = Bool(FALSE)
        /\ LET reversed == AdditiveLayerStore_special(Now)
           IN  \A layer \in Catalog :
                 reversed.queue # <<>> =>
                   AdditiveLayerStore_erase(reversed, layer).self.queue
                       = Tail(reversed.queue)

\* C18, the case: erase was passed a layer that is not the head of a queue
\* of several different layers, and removed the head.
C18_Witness ==
    /\ Called("ADD", "erase")
    /\ Len(Before.queue) >= 2
    /\ Before.queue[1] # Before.queue[2]
    /\ cell_call.layer # Before.queue[1]
    /\ cell_call.layer = Before.queue[2]
    /\ Now.queue = Tail(Before.queue)

\* A sequence in the reverse order.
Reverse(seq) == [i \in 1..Len(seq) |-> seq[Len(seq) + 1 - i]]

\* C19: special of an AdditiveLayerStore replaces the queue by its exact
\* reverse: no layer is dropped or duplicated, falsy ones included, also at
\* full capacity, and two specials give the original order.
C19_SpecialReverses ==
    draw_style = "ADD" =>
        /\ Called("ADD", "special") => Now.queue = Reverse(Before.queue)
        /\ AdditiveLayerStore_special(AdditiveLayerStore_special(Now)) = Now

\* The transforms of the layers of a queue, folded from the head to the tail.
RECURSIVE FoldLayers(_, _)
FoldLayers(queue, colour) ==
    IF queue = <<>>
    THEN colour
    ELSE FoldLayers(Tail(queue), Layer_apply(Head(queue), colour))

\* C20: get_color of an AdditiveLayerStore returns the transforms of the
\* layers folded over the queue from the head to the tail, starting from
\* start, and leaves the queue as it was, also at full capacity; a second
\* read returns the same colour.
C20_GetColorFolds ==
    Called("ADD", "get_color") =>
        /\ returned = Colour(FoldLayers(Before.queue, StartColour))
        /\ Now.queue = Before.queue
        /\ AdditiveLayerStore_get_color(Now, StartColour).ret = returned.colour

\* C20, the case: get_color was called on a full store whose layers differ.
C20_Witness ==
    /\ Called("ADD", "get_color")
    /\ Len(Before.queue) = AdditiveLayerStore_capacity
    /\ Before.queue[1] # Before.queue[2]
    /\ Len(returned.colour) = AdditiveLayerStore_capacity + 1
    /\ Now.queue = Before.queue

\* The layers a SequenceLayerStore holds, in the order of its list.
Held(self) == [i \in 1..Len(self.sorted_list) |-> self.sorted_list[i].value]

\* Whether a SequenceLayerStore holds a layer with the index of layer.
Holds(self, layer) ==
    \E i \in 1..Len(self.sorted_list) :
        self.sorted_list[i].value.index = layer.index

\* A sequence of layers without the layers that have the index of layer.
Without(layers, layer) ==
    SelectSeq(layers, LAMBDA held : held.index # layer.index)

C22_SeqAddReturn ==
    Called("SEQUENCE", "add") =>
        returned = Bool(~Holds(Before, cell_call.layer))

\* C23: erase of a SequenceLayerStore removes the entry with the index of
\* the layer and leaves the others in place; without such an entry it
\* changes nothing and does not raise; afterwards no entry has that index;
\* and it returns True if and only if the store was changed.
C23_SeqErase ==
    Called("SEQUENCE", "erase") =>
        /\ raised = "none"
        /\ Held(Now) = Without(Held(Before), cell_call.layer)
        /\ ~Holds(Now, cell_call.layer)
        /\ returned = Bool(Now # Before)

\* The layer at position p (from 0) when layers are put in the order of
\* their names.
AtNamePosition(layers, p) ==
    CHOOSE layer \in layers :
        Cardinality({ other \in layers : NameLess(other.name, layer.name) }) = p

\* The layers of a sequence, as a set.
Range(seq) == { seq[i] : i \in 1..Len(seq) }

\* C24: special of a SequenceLayerStore that holds m layers of different
\* names removes the layer at position m \div 2 of the names in order when m
\* is odd, and at position m \div 2 - 1 when m is even, and leaves the other
\* layers in place; with m = 0 it changes nothing and does not raise.
C24_SeqSpecialMedian ==
    Called("SEQUENCE", "special") =>
        LET m == Len(Before.sorted_list)
            position == IF m % 2 = 1 THEN m \div 2 ELSE (m \div 2) - 1
        IN  /\ raised = "none"
            /\ IF m = 0
               THEN Now = Before
               ELSE Held(Now) = Without(Held(Before),
                                        AtNamePosition(Range(Held(Before)), position))

\* C24, the case: special on the layers b, a, d, c removed b.
C24_Witness ==
    /\ Called("SEQUENCE", "special")
    /\ { layer.name : layer \in Range(Held(Before)) } = {"b", "a", "d", "c"}
    /\ { layer.name : layer \in Range(Held(Now)) } = {"a", "d", "c"}

-----------------------------------------------------------------------------
(* Properties of the grid.                                                  *)

\* C25: brush_size starts at DEFAULT_BRUSH_SIZE and stays between MIN_BRUSH
\* and MAX_BRUSH; increase_brush_size adds 1 unless the size is MAX_BRUSH,
\* decrease_brush_size subtracts 1 unless the size is MIN_BRUSH; neither
\* raises and neither changes a square.
C25_BrushClamped ==
    /\ brush_size = 2
    /\ [](brush_size \in 0..5)
    /\ [][ last'.op = "increase_brush_size" =>
              /\ brush_size' = IF brush_size = 5 THEN 5 ELSE brush_size + 1
              /\ raised' = "none"
              /\ grid' = grid ]_vars
    /\ [][ last'.op = "decrease_brush_size" =>
              /\ brush_size' = IF brush_size = 0 THEN 0 ELSE brush_size - 1
              /\ raised' = "none"
              /\ grid' = grid ]_vars

\* C25, the case: increase_brush_size was called at the largest size, on a
\* grid that is painted, and the size is the largest still.
C25_Witness ==
    /\ last.op = "increase_brush_size"
    /\ brush_size = MAX_BRUSH
    /\ returned = NoValue
    /\ \E c \in Cells : grid[c] # LayerStore_init(draw_style)

\* C26: undo changes the grid only if the same call moves the top action
\* from the action stack to the redo stack, and redo changes it only if the
\* same call moves the top action from the redo stack to the action stack,
\* the receiving stack being full or not.
C26_HistoryAtomic ==
    [][ /\ (UndoCall /\ grid' # grid) =>
              /\ action_stack # <<>>
              /\ action_stack' = SubSeq(action_stack, 1, Len(action_stack) - 1)
              /\ redo_stack' = redo_stack \o <<action_stack[Len(action_stack)]>>
        /\ (RedoCall /\ grid' # grid) =>
              /\ redo_stack # <<>>
              /\ redo_stack' = SubSeq(redo_stack, 1, Len(redo_stack) - 1)
              /\ action_stack' = action_stack \o <<redo_stack[Len(redo_stack)]>>
      ]_vars

====
